---- MODULE Spec2Model ----
(***************************************************************************)
(* Model of providers/asrockrack/inventory.go: one invocation of           *)
(* ASRockRack.Inventory, which reads FRU, firmware, component and          *)
(* sensor data from the BMC, one read after the other, and builds a        *)
(* common.Device from them.                                                *)
(*                                                                         *)
(* Each action is one collaborator read together with all the local        *)
(* computation that follows it up to the next read (or the return).  The   *)
(* outcome of a read is an input, drawn from a small set.                   *)
(***************************************************************************)
EXTENDS Integers, Sequences, FiniteSets, TLC

\* Bounds on the lengths of the lists the collaborator reads return.
MaxFrus == 2
MaxComponents == 2
MaxSensors == 2

----------------------------------------------------------------------------
\* Go values

\* a nil pointer is the empty sequence, a non-nil pointer a one-element one
Nil == <<>>
Ptr(x) == <<x>>

\* the nil error
NoErr == "nil"

\* errors a collaborator read can return: a failed request, a cancelled ctx
ErrUpstream == "unexpected status code"
ErrCanceled == "context canceled"
ReadErrors == {ErrUpstream, ErrCanceled}

\* errors.New("no fru information found")
ErrNoFru == "no fru information found"

NA == "N/A"

EmptyMap == [k \in {} |-> ""]
MapSet(m, k, v) == (k :> v) @@ m

RECURSIVE SeqsUpTo(_, _)
SeqsUpTo(S, n) ==
    IF n = 0 THEN {<<>>}
    ELSE LET shorter == SeqsUpTo(S, n - 1)
         IN  shorter \cup {Append(s, x) : s \in {t \in shorter : Len(t) = n - 1}, x \in S}

----------------------------------------------------------------------------
\* Inputs: what the collaborator reads can return

FruSet ==
    { [Board   |-> [ProductName |-> "X470D4U", Manufacturer |-> "ASRockRack",
                    SerialNumber |-> "B-0001"],
       Chassis |-> [Type |-> "Rack Mount Chassis", ModelExtra |-> "C-extra",
                    SerialNumber |-> "C-0001", PartNumber |-> "C-part"],
       Product |-> [Manufacturer |-> "P-vendor", ProductName |-> "P-name",
                    PartNumber |-> "P-part", ProductVersion |-> "P-1.0",
                    SerialNumber |-> "P-0001"]],
      [Board   |-> [ProductName |-> "E3C246D4I-2T", Manufacturer |-> "ASRock",
                    SerialNumber |-> ""],
       Chassis |-> [Type |-> "Main Server Chassis", ModelExtra |-> NA,
                    SerialNumber |-> "C-0002", PartNumber |-> NA],
       Product |-> [Manufacturer |-> NA, ProductName |-> "",
                    PartNumber |-> NA, ProductVersion |-> NA,
                    SerialNumber |-> "P-0002"]] }

FirmwareSet ==
    { [BIOSVersion |-> "L0.01", BMCVersion |-> "0.01.00", CPLDVersion |-> cpld,
       MicroCodeVersion |-> "000000ca", MEVersion |-> "5.1.3.78", NodeID |-> "node-1"]
      : cpld \in {NA, "", "1.2"} }

Component(type, mfr, pn) ==
    [DeviceType |-> type, DeviceName |-> "DDR4", ProductName |-> "model-x",
     ProductManufacturerName |-> mfr, ProductPartNumber |-> pn,
     ProductSerialNumber |-> "S-77", ProductExtra |-> "extra"]

ComponentSet ==
    { Component("CPU", "Intel", NA),
      Component("Memory", "Micron", "MEM-PN"),
      Component("Fan", "Delta", NA) }
    \cup { Component("Storage device", mfr, pn) :
             mfr \in {NA, "Intel"}, pn \in {NA, "ACME-SSD-1"} }

SensorSet ==
    [Name : {"CPU_CATERR", "FAN1"}, SensorState : {0, 1}]
    \cup { [Name |-> "FAN2", SensorState |-> 0],
           [Name |-> "FAN2", SensorState |-> 2],
           [Name |-> "CPU_PROCHOT", SensorState |-> 2] }

PostCodeSet ==
    { [status |-> "Unknown", code |-> 170, err |-> NoErr] }
    \cup { [status |-> "", code |-> 0, err |-> e] : e \in ReadErrors }

\* the result of a read: a value with the nil error, or a zero value with an error
ReadResults(values, zero) ==
    { [val |-> v, err |-> NoErr] : v \in values }
    \cup { [val |-> zero, err |-> e] : e \in ReadErrors }

ZeroFirmware ==
    [BIOSVersion |-> "", BMCVersion |-> "", CPLDVersion |-> "",
     MicroCodeVersion |-> "", MEVersion |-> "", NodeID |-> ""]

----------------------------------------------------------------------------
\* common.NewDevice(), with Status and Metadata as Inventory initialises them

NewDevice ==
    [Model |-> "", Vendor |-> "", Serial |-> "",
     Mainboard |-> [Model |-> "", Vendor |-> "", Serial |-> ""],
     Enclosures |-> <<>>,
     Metadata |-> EmptyMap,
     BIOS |-> Nil, BMC |-> Nil,
     CPLDs |-> <<>>, CPUs |-> <<>>, Memory |-> <<>>, Drives |-> <<>>,
     Status |-> [Health |-> "", State |-> "", PostCodeStatus |-> "", PostCode |-> 0]]

----------------------------------------------------------------------------
\* fruAttributes

\* mutant of fruCountErr: only an empty list is refused
fruCountErrEmptyOnly(frus) == IF Len(frus) = 0 THEN ErrNoFru ELSE NoErr

\* if len(frus) != 1 { return errors.New("no fru information found") }
fruCountErr(frus) == IF Len(frus) # 1 THEN ErrNoFru ELSE NoErr

\* mutant of fruIdentity: the system identity taken from fru.Product
fruIdentityFromProduct(dev, fru) ==
    [dev EXCEPT !.Model = fru.Product.ProductName,
                !.Vendor = fru.Product.Manufacturer,
                !.Serial = fru.Product.SerialNumber,
                !.Mainboard = [Model  |-> fru.Board.ProductName,
                               Vendor |-> fru.Board.Manufacturer,
                               Serial |-> fru.Board.SerialNumber]]

\* system and board identity, both from fru.Board
fruIdentity(dev, fru) ==
    [dev EXCEPT !.Model = fru.Board.ProductName,
                !.Vendor = fru.Board.Manufacturer,
                !.Serial = fru.Board.SerialNumber,
                !.Mainboard = [Model  |-> fru.Board.ProductName,
                               Vendor |-> fru.Board.Manufacturer,
                               Serial |-> fru.Board.SerialNumber]]

\* one enclosure from fru.Chassis
fruEnclosure(dev, fru) ==
    [dev EXCEPT !.Enclosures =
        Append(@, [Description |-> fru.Chassis.Type,
                   Model       |-> fru.Chassis.ModelExtra,
                   Serial      |-> fru.Chassis.SerialNumber,
                   ProductName |-> fru.Chassis.PartNumber])]

\* five metadata keys from fru.Product
fruMetadata(dev, fru) ==
    [dev EXCEPT !.Metadata =
        MapSet(MapSet(MapSet(MapSet(MapSet(@,
            "product.manufacturer", fru.Product.Manufacturer),
            "product.name", fru.Product.ProductName),
            "product.part_number", fru.Product.PartNumber),
            "product.version", fru.Product.ProductVersion),
            "product.serialnumber", fru.Product.SerialNumber)]

\* fruAttributes, given what a.fruInfo(ctx) returned: the device and the error
fruAttributes(dev, res) ==
    IF res.err # NoErr THEN [device |-> dev, err |-> res.err]
    ELSE IF fruCountErr(res.val) # NoErr
         THEN [device |-> dev, err |-> fruCountErr(res.val)]
         ELSE LET fru == res.val[1]
              IN  [device |-> fruMetadata(fruEnclosure(fruIdentity(dev, fru), fru), fru),
                   err |-> NoErr]

----------------------------------------------------------------------------
\* systemAttributes

\* &common.BIOS{...} and &common.BMC{...}: vendor and model of the device
firmwareEntity(dev, version) ==
    [Vendor |-> dev.Vendor, Model |-> dev.Model, Firmware |-> [Installed |-> version]]

\* mutant of cpldPresent: an empty version string counts as absent too
cpldPresentNonEmpty(fw) == fw.CPLDVersion # NA /\ fw.CPLDVersion # ""

\* if fwInfo.CPLDVersion != "N/A" { device.CPLDs = append(...) }
cpldPresent(fw) == fw.CPLDVersion # NA

\* mutant of systemAttributesFirmware: the error of the firmware read is dropped
systemAttributesFirmwareIgnoreErr(dev, res) ==
    [device |-> [dev EXCEPT !.BIOS = Ptr([Vendor |-> dev.Vendor, Model |-> dev.Model,
                                          Firmware |-> [Installed |-> res.val.BIOSVersion]]),
                            !.BMC  = Ptr([Vendor |-> dev.Vendor, Model |-> dev.Model,
                                          Firmware |-> [Installed |-> res.val.BMCVersion]])],
     err |-> NoErr]

\* the part of systemAttributes up to the inventoryInfo read,
\* given what a.firmwareInfo(ctx) returned
systemAttributesFirmware(dev, res) ==
    IF res.err # NoErr THEN [device |-> dev, err |-> res.err]
    ELSE LET fw == res.val
             d1 == [dev EXCEPT !.BIOS = Ptr(firmwareEntity(dev, fw.BIOSVersion)),
                               !.BMC  = Ptr(firmwareEntity(dev, fw.BMCVersion))]
             d2 == IF cpldPresent(fw)
                   THEN [d1 EXCEPT !.CPLDs = Append(@, firmwareEntity(d1, fw.CPLDVersion))]
                   ELSE d1
         IN  [device |-> [d2 EXCEPT !.Metadata = MapSet(@, "node_id", fw.NodeID)],
              err |-> NoErr]

\* constants.VendorFromProductName: a table keyed by known part numbers,
\* the empty string for a part number it does not know
VendorFromProductName(pn) ==
    IF pn = "ACME-SSD-1" THEN "acme" ELSE ""

\* mutant of driveVendor: the manufacturer field is not looked at
driveVendorIgnoreManufacturer(component) ==
    IF component.ProductPartNumber # NA
    THEN VendorFromProductName(component.ProductPartNumber)
    ELSE ""

\* var vendor string; set only for manufacturer "N/A" with a real part number
driveVendor(component) ==
    IF component.ProductManufacturerName = NA /\ component.ProductPartNumber # NA
    THEN VendorFromProductName(component.ProductPartNumber)
    ELSE ""

\* one iteration of the loop over the components: the switch on DeviceType
mapComponent(dev, fw, component) ==
    CASE component.DeviceType = "CPU" ->
           [dev EXCEPT !.CPUs = Append(@,
               [Vendor |-> component.ProductManufacturerName,
                Model  |-> component.ProductName,
                Firmware |-> [Installed |-> fw.MicroCodeVersion,
                              Metadata  |-> ("Intel_ME_version" :> fw.MEVersion)]])]
      [] component.DeviceType = "Memory" ->
           [dev EXCEPT !.Memory = Append(@,
               [Vendor      |-> component.ProductManufacturerName,
                Serial      |-> component.ProductSerialNumber,
                Description |-> component.ProductExtra,
                PartNumber  |-> component.ProductPartNumber,
                Type        |-> component.DeviceName])]
      [] component.DeviceType = "Storage device" ->
           [dev EXCEPT !.Drives = Append(@,
               [Vendor      |-> driveVendor(component),
                Serial      |-> component.ProductSerialNumber,
                ProductName |-> component.ProductPartNumber])]
      [] OTHER -> dev

RECURSIVE mapComponents(_, _, _)
mapComponents(dev, fw, components) ==
    IF components = <<>> THEN dev
    ELSE mapComponents(mapComponent(dev, fw, Head(components)), fw, Tail(components))

\* the rest of systemAttributes, given what a.inventoryInfo(ctx) returned
systemAttributesComponents(dev, fw, res) ==
    IF res.err # NoErr THEN [device |-> dev, err |-> res.err]
    ELSE [device |-> mapComponents(dev, fw, res.val), err |-> NoErr]

----------------------------------------------------------------------------
\* systemHealth

\* mutant of sensorFaults: every sensor is nominal at 1
sensorFaultsNominalOne(sensor) == sensor.SensorState # 1

\* the two cases of the switch on sensor.Name
sensorFaults(sensor) ==
    IF sensor.Name \in {"CPU_CATERR", "CPU_THERMTRIP", "CPU_PROCHOT"}
    THEN sensor.SensorState # 0
    ELSE sensor.SensorState # 1

\* The loop over the sensors.  The break statements in the two cases leave the
\* switch, not the for loop (Go), so every sensor of the list is visited and
\* every faulting one assigns device.Status.State.
RECURSIVE scanSensors(_, _)
scanSensors(sensors, st) ==
    IF sensors = <<>> THEN st
    ELSE scanSensors(Tail(sensors),
                     IF sensorFaults(Head(sensors))
                     THEN [ok |-> FALSE, State |-> Head(sensors).Name]
                     ELSE st)

\* mutant of systemHealthSensors: the error of the sensor read is dropped
systemHealthSensorsIgnoreErr(dev, res) ==
    [device |-> [dev EXCEPT !.Status.Health = "OK"], err |-> NoErr]

\* systemHealth up to the PostCode read, given what a.sensors(ctx) returned
systemHealthSensors(dev, res) ==
    IF res.err # NoErr THEN [device |-> dev, err |-> res.err]
    ELSE LET st == scanSensors(res.val, [ok |-> TRUE, State |-> dev.Status.State])
         IN  [device |-> [dev EXCEPT !.Status.State = st.State,
                                     !.Status.Health = IF st.ok THEN "OK" ELSE "CRITICAL"],
              err |-> NoErr]

\* mutant of systemHealthPostCode: the error of the PostCode read is returned
systemHealthPostCodePropagate(dev, res) ==
    [device |-> [dev EXCEPT !.Status.PostCodeStatus = res.status,
                            !.Status.PostCode = res.code],
     err |-> res.err]

\* device.Status.PostCodeStatus, device.Status.PostCode, _ = a.PostCode(ctx); return nil
systemHealthPostCode(dev, res) ==
    [device |-> [dev EXCEPT !.Status.PostCodeStatus = res.status,
                            !.Status.PostCode = res.code],
     err |-> NoErr]

----------------------------------------------------------------------------
\* Inventory

\* mutant of inventoryReturn: the device is returned along with the error
inventoryReturnPartial(dev, err) == [device |-> Ptr(dev), err |-> err]

\* return nil, err / return device, nil
inventoryReturn(dev, err) ==
    IF err # NoErr THEN [device |-> Nil, err |-> err]
    ELSE [device |-> Ptr(dev), err |-> NoErr]

VARIABLES
    pc,          \* the read Inventory is about to issue, or "done"
    device,      \* the Device under construction (*device)
    fwInfo,      \* systemAttributes' local fwInfo
    frus,        \* what a.fruInfo returned
    components,  \* what a.inventoryInfo returned
    sensors,     \* what a.sensors returned
    postCode,    \* what a.PostCode returned
    calls,       \* the reads issued so far, with the error each returned
    ret          \* what Inventory returned, once pc = "done"

vars == <<pc, device, fwInfo, frus, components, sensors, postCode, calls, ret>>

Init ==
    /\ pc = "fruInfo"
    /\ device = NewDevice
    /\ fwInfo = ZeroFirmware
    /\ frus = <<>>
    /\ components = <<>>
    /\ sensors = <<>>
    /\ postCode = [status |-> "", code |-> 0, err |-> NoErr]
    /\ calls = <<>>
    /\ ret = [device |-> Nil, err |-> NoErr]

\* after a step that returned r: Inventory returns r.err, or goes on to next
Continue(r, next) ==
    /\ device' = r.device
    /\ IF r.err # NoErr
       THEN /\ pc' = "done"
            /\ ret' = inventoryReturn(r.device, r.err)
       ELSE /\ pc' = next
            /\ ret' = ret

Log(op, err) == calls' = Append(calls, [op |-> op, err |-> err])

\* err = a.fruAttributes(ctx, device)
FruAttributes ==
    /\ pc = "fruInfo"
    /\ \E res \in ReadResults(SeqsUpTo(FruSet, MaxFrus), <<>>) :
         /\ Log("fruInfo", res.err)
         /\ frus' = res.val
         /\ Continue(fruAttributes(device, res), "firmwareInfo")
    /\ UNCHANGED <<fwInfo, components, sensors, postCode>>

\* err = a.systemAttributes(ctx, device), up to its second read
SystemAttributesFirmware ==
    /\ pc = "firmwareInfo"
    /\ \E res \in ReadResults(FirmwareSet, ZeroFirmware) :
         /\ Log("firmwareInfo", res.err)
         /\ fwInfo' = res.val
         /\ Continue(systemAttributesFirmware(device, res), "inventoryInfo")
    /\ UNCHANGED <<frus, components, sensors, postCode>>

\* a.systemAttributes, from its second read on
SystemAttributesComponents ==
    /\ pc = "inventoryInfo"
    /\ \E res \in ReadResults(SeqsUpTo(ComponentSet, MaxComponents), <<>>) :
         /\ Log("inventoryInfo", res.err)
         /\ components' = res.val
         /\ Continue(systemAttributesComponents(device, fwInfo, res), "sensors")
    /\ UNCHANGED <<fwInfo, frus, sensors, postCode>>

\* err = a.systemHealth(ctx, device), up to the PostCode read
SystemHealthSensors ==
    /\ pc = "sensors"
    /\ \E res \in ReadResults(SeqsUpTo(SensorSet, MaxSensors), <<>>) :
         /\ Log("sensors", res.err)
         /\ sensors' = res.val
         /\ Continue(systemHealthSensors(device, res), "PostCode")
    /\ UNCHANGED <<fwInfo, frus, components, postCode>>

\* a.systemHealth from the PostCode read on, and Inventory's return
SystemHealthPostCode ==
    /\ pc = "PostCode"
    /\ \E res \in PostCodeSet :
         /\ Log("PostCode", res.err)
         /\ postCode' = res
         /\ LET r == systemHealthPostCode(device, res)
            IN  /\ device' = r.device
                /\ ret' = inventoryReturn(r.device, r.err)
    /\ pc' = "done"
    /\ UNCHANGED <<fwInfo, frus, components, sensors>>

Next ==
    \/ FruAttributes
    \/ SystemAttributesFirmware
    \/ SystemAttributesComponents
    \/ SystemHealthSensors
    \/ SystemHealthPostCode

Spec == Init /\ [][Next]_vars

----------------------------------------------------------------------------
\* Vocabulary of the properties

Returned == pc = "done"
Succeeded == pc = "done" /\ ret.err = NoErr /\ ret.device # Nil

\* the reads whose error Inventory checks
CheckedReads == {"fruInfo", "firmwareInfo", "inventoryInfo", "sensors"}
ReadOrder == <<"fruInfo", "firmwareInfo", "inventoryInfo", "sensors", "PostCode">>

Failed(op, err) == \E i \in 1..Len(calls) : calls[i].op = op /\ calls[i].err = err
Issued(op) == \E i \in 1..Len(calls) : calls[i].op = op

\* the fault rule as the specification words it
IsFaultIndicator(name) == name \in {"CPU_CATERR", "CPU_THERMTRIP", "CPU_PROCHOT"}
Faulting(s) == (IsFaultIndicator(s.Name) /\ s.SensorState # 0)
               \/ (~IsFaultIndicator(s.Name) /\ s.SensorState # 1)
FaultIdx == {i \in 1..Len(sensors) : Faulting(sensors[i])}
FirstFaultIdx == CHOOSE i \in FaultIdx : \A j \in FaultIdx : i <= j

StorageComponents == SelectSeq(components, LAMBDA c : c.DeviceType = "Storage device")
ExpectedVendor(c) ==
    IF c.ProductManufacturerName = "N/A" /\ c.ProductPartNumber # "N/A"
    THEN VendorFromProductName(c.ProductPartNumber)
    ELSE ""

----------------------------------------------------------------------------
\* C1 (as claimed): when Inventory succeeds and at least one sensor of the list
\* faults, Device.Status.State is the name of the first faulting sensor in
\* input order.
C1_FirstFaultWins ==
    (Succeeded /\ FaultIdx # {}) =>
        ret.device[1].Status.State = sensors[FirstFaultIdx].Name

\* C2: after a successful Inventory, Health is "CRITICAL" iff some sensor faults
\* and "OK" otherwise (an empty list gives "OK"); no third value occurs.
C2_HealthVerdict ==
    Succeeded =>
        /\ ret.device[1].Status.Health = (IF FaultIdx # {} THEN "CRITICAL" ELSE "OK")
        /\ (sensors = <<>> => ret.device[1].Status.Health = "OK")

C2_Witness ==
    /\ Succeeded
    /\ \E i \in 1..Len(sensors) :
         sensors[i] = [Name |-> "CPU_CATERR", SensorState |-> 1]
    /\ \E i \in 1..Len(sensors) :
         sensors[i] = [Name |-> "FAN1", SensorState |-> 1]
    /\ ret.device[1].Status.Health = "CRITICAL"

\* C3: when the FRU read succeeds with zero or with two or more records,
\* Inventory returns the data-integrity error, which is no upstream read
\* error, and a nil Device; a Device is returned only for exactly one record.
C3_FruCardinality ==
    Returned =>
        /\ (calls[1].err = NoErr /\ Len(frus) # 1) =>
              /\ ret.device = Nil
              /\ ret.err = ErrNoFru
              /\ ret.err \notin ReadErrors
        /\ ret.device # Nil => (calls[1].err = NoErr /\ Len(frus) = 1)

C3_Witness ==
    Returned /\ calls[1].err = NoErr /\ Len(frus) = 2 /\ ret.device = Nil

\* C4: if one of the four checked reads returned an error, Inventory returns
\* exactly that error and a nil Device, whatever the device already holds.
C4_AllOrNothing ==
    Returned =>
        \A i \in 1..Len(calls) :
            (calls[i].op \in CheckedReads /\ calls[i].err # NoErr) =>
                ret.err = calls[i].err /\ ret.device = Nil

C4_Witness ==
    /\ Returned
    /\ Failed("sensors", ErrUpstream)
    /\ device.Drives # <<>>
    /\ ret = [device |-> Nil, err |-> ErrUpstream]

\* C5: the PostCode read is issued only once the health verdict is final; for
\* every outcome of it Inventory returns no error and a Device whose Health and
\* State are the ones held before the read, and whose PostCodeStatus and
\* PostCode are what the read returned.
C5_PostCodeIsolation ==
    [][ (Len(calls') > Len(calls) /\ calls'[Len(calls')].op = "PostCode") =>
          /\ Failed("sensors", NoErr)
          /\ device.Status.Health \in {"OK", "CRITICAL"}
          /\ pc' = "done"
          /\ ret'.err = NoErr
          /\ ret'.device # Nil
          /\ ret'.device[1].Status.Health = device.Status.Health
          /\ ret'.device[1].Status.State = device.Status.State
          /\ ret'.device[1].Status.PostCodeStatus = postCode'.status
          /\ ret'.device[1].Status.PostCode = postCode'.code
          /\ postCode'.err = calls'[Len(calls')].err ]_vars

C5_Witness ==
    /\ Succeeded
    /\ Failed("PostCode", ErrUpstream)
    /\ ret.device[1].Status.Health = "CRITICAL"

\* C6 (as claimed): if any read, the PostCode read included, failed by
\* cancellation, Inventory returns an error and no Device.
C6_CancelAbortsAlways ==
    Returned =>
        ((\E i \in 1..Len(calls) : calls[i].err = ErrCanceled) =>
            ret.device = Nil /\ ret.err # NoErr)

\* C6 (amended): a cancelled FRU, firmware, component or sensor read makes
\* Inventory return an error and no Device; a cancelled PostCode read is
\* swallowed, Inventory then returns the Device and no error.
C6_CancelAbortsCheckedReads ==
    Returned =>
        /\ (\E op \in CheckedReads : Failed(op, ErrCanceled)) =>
              ret.device = Nil /\ ret.err = ErrCanceled
        /\ Failed("PostCode", ErrCanceled) =>
              ret.device # Nil /\ ret.err = NoErr

C6_Witness ==
    /\ Returned
    /\ Failed("sensors", ErrCanceled)
    /\ device.BIOS # Nil
    /\ ret.device = Nil

\* C7: after a successful Inventory the Device holds a CPLD iff the firmware
\* record's CPLD version is not "N/A"; then there is exactly one, with that
\* version installed (the empty string too) and the Device's vendor and model.
C7_CpldPresence ==
    Succeeded =>
        LET d == ret.device[1]
        IN  /\ (d.CPLDs # <<>>) <=> (fwInfo.CPLDVersion # "N/A")
            /\ Len(d.CPLDs) <= 1
            /\ d.CPLDs # <<>> =>
                 /\ d.CPLDs[1].Firmware.Installed = fwInfo.CPLDVersion
                 /\ d.CPLDs[1].Vendor = d.Vendor
                 /\ d.CPLDs[1].Model = d.Model

C7_Witness ==
    /\ Succeeded
    /\ fwInfo.CPLDVersion = ""
    /\ Len(ret.device[1].CPLDs) = 1

\* C8: once the FRU step succeeded, and in the Device returned, Model, Vendor
\* and Serial are the board's ProductName, Manufacturer and SerialNumber; the
\* BIOS and BMC, once created, carry that vendor and model.
C8_BoardIdentity ==
    /\ (pc \in {"firmwareInfo", "inventoryInfo", "sensors", "PostCode"} \/ Succeeded) =>
          /\ Len(frus) = 1
          /\ device.Model = frus[1].Board.ProductName
          /\ device.Vendor = frus[1].Board.Manufacturer
          /\ device.Serial = frus[1].Board.SerialNumber
    /\ (pc \in {"inventoryInfo", "sensors", "PostCode"} \/ Succeeded) =>
          /\ device.BIOS # Nil /\ device.BMC # Nil
          /\ device.BIOS[1].Vendor = frus[1].Board.Manufacturer
          /\ device.BIOS[1].Model = frus[1].Board.ProductName
          /\ device.BMC[1].Vendor = frus[1].Board.Manufacturer
          /\ device.BMC[1].Model = frus[1].Board.ProductName
    /\ Succeeded => ret.device = Ptr(device)

C8_Witness ==
    /\ Succeeded
    /\ components # <<>>
    /\ ret.device[1].Model = "X470D4U"
    /\ ret.device[1].BIOS[1].Vendor = "ASRockRack"

\* C9: the Device holds one Drive per "Storage device" component, in order; its
\* Vendor is the part-number lookup when the manufacturer is "N/A" and the part
\* number is not, and the empty string in every other case.
C9_DriveVendor ==
    (pc \in {"sensors", "PostCode"} \/ Succeeded) =>
        /\ Len(device.Drives) = Len(StorageComponents)
        /\ \A k \in 1..Len(StorageComponents) :
             device.Drives[k].Vendor = ExpectedVendor(StorageComponents[k])
        /\ Succeeded => ret.device[1].Drives = device.Drives

C9_Witness ==
    /\ Succeeded
    /\ Len(ret.device[1].Drives) = 2
    /\ ret.device[1].Drives[1].Vendor = ""
    /\ ret.device[1].Drives[2].Vendor = "acme"
    /\ components[1].ProductManufacturerName = "Intel"
    /\ components[1].ProductPartNumber = "ACME-SSD-1"

\* C10: the reads are issued in the order FRU, firmware, components, sensors,
\* POST code, each at most once, and a read is issued only after the read
\* before it succeeded and the FRU list held exactly one record.
C10_SequentialReads ==
    /\ Len(calls) <= Len(ReadOrder)
    /\ \A i \in 1..Len(calls) :
         /\ calls[i].op = ReadOrder[i]
         /\ i > 1 => (calls[i-1].err = NoErr /\ Len(frus) = 1)
    /\ Returned => (calls # <<>> /\ (Len(calls) < Len(ReadOrder) => ret.err # NoErr))

C10_Witness ==
    /\ Returned
    /\ Len(calls) = 3
    /\ calls[3].err # NoErr
    /\ ~Issued("sensors") /\ ~Issued("PostCode")

====
